---------------------------- MODULE Spec2Model ----------------------------
(***************************************************************************)
(* photo-info-footer (src/main.py): the batch driver App.process_images,   *)
(* the file enumeration App.get_image_files, the metadata pipeline         *)
(* App.process_image (orientation, date cascade, GPS / reverse geocoding   *)
(* with its recursive retry) and the output written by App.add_footer.     *)
(*                                                                         *)
(* Text is modelled as sequences of one-character strings, so that         *)
(* str.lower, str.endswith, list.sort, os.path.join, os.path.basename,    *)
(* the filename regular expression, strptime and strftime are computed,    *)
(* not assumed.                                                            *)
(***************************************************************************)
EXTENDS Integers, Sequences, FiniteSets, TLC

(***************************************************************************)
(* Bounds of the model.                                                    *)
(***************************************************************************)
\* longest directory listing of the batch specification
MaxFiles == 3
\* most tags in the metadata block of the single-image specification
MaxTags == 4
\* most keys in an address-component mapping returned by the geocoder
MaxAddrKeys == 2
\* most transient geocoding failures for one process_images run
MaxFails == 2
\* number of process_images runs after the first one
MaxReruns == 1

(***************************************************************************)
(* Python values.                                                          *)
(***************************************************************************)
\* Python's None.  Every str, tuple and None of the model is a sequence; None is the
\* one-element sequence below, which no str (a sequence of single characters) equals.
None == <<"None">>

IsNone(x) == Len(x) = 1 /\ x[1] = "None"

\* the empty str
EmptyStr == << >>

\* bool(x) for a str, a tuple or None: None and the empty sequence are falsy
Truthy(x) == Len(x) > 0 /\ ~IsNone(x)

\* The values of the metadata tags are int, str, bytes or dict objects: a record
\* carrying the type and the value in the field of that type.
PyInt(n) == [type |-> "int", int |-> n, str |-> << >>, dict |-> << >>]

PyStr(s) == [type |-> "str", int |-> 0, str |-> s, dict |-> << >>]

PyDict(d) == [type |-> "dict", int |-> 0, str |-> << >>, dict |-> d]

\* a tag value that is not a str (PIL hands back bytes for a malformed ASCII tag)
NotStr == [type |-> "bytes", int |-> 0, str |-> << >>, dict |-> << >>]

(***************************************************************************)
(* Characters.  Alphabet lists the characters used, in code-point order,   *)
(* which is the order list.sort compares str by.                           *)
(***************************************************************************)
Alphabet ==
  << " ", "-", ".", "/", "0", "1", "2", "3", "4", "5", "6", "7", "8", "9", ":", ">",
     "A", "B", "C", "D", "E", "F", "G", "H", "I", "J", "K", "L", "M", "N", "O", "P",
     "Q", "R", "S", "T", "U", "V", "W", "X", "Y", "Z", "_",
     "a", "b", "c", "d", "e", "f", "g", "h", "i", "j", "k", "l", "m", "n", "o", "p",
     "q", "r", "s", "t", "u", "v", "w", "x", "y", "z" >>

Ord(c) == CHOOSE i \in 1..Len(Alphabet) : Alphabet[i] = c

Digits == <<"0", "1", "2", "3", "4", "5", "6", "7", "8", "9">>

IsDigit(c) == \E i \in 1..Len(Digits) : Digits[i] = c

DigitVal(c) == (CHOOSE i \in 1..Len(Digits) : Digits[i] = c) - 1

Uppers == <<"A", "B", "C", "D", "E", "F", "G", "H", "I", "J", "K", "L", "M",
            "N", "O", "P", "Q", "R", "S", "T", "U", "V", "W", "X", "Y", "Z">>

Lowers == <<"a", "b", "c", "d", "e", "f", "g", "h", "i", "j", "k", "l", "m",
            "n", "o", "p", "q", "r", "s", "t", "u", "v", "w", "x", "y", "z">>

\* str.lower on one character
LowerChar(c) ==
  IF \E i \in 1..Len(Uppers) : Uppers[i] = c
    THEN Lowers[CHOOSE i \in 1..Len(Uppers) : Uppers[i] = c]
    ELSE c

\* str.lower
Lower(s) == [i \in 1..Len(s) |-> LowerChar(s[i])]

\* str.endswith(suffix)
EndsWith(s, suffix) ==
  /\ Len(suffix) <= Len(s)
  /\ SubSeq(s, Len(s) - Len(suffix) + 1, Len(s)) = suffix

\* str.startswith(prefix)
StartsWith(s, prefix) ==
  /\ Len(prefix) <= Len(s)
  /\ SubSeq(s, 1, Len(prefix)) = prefix

\* s < t for str: the first differing character decides, a proper prefix is smaller
StrLess(s, t) ==
  \/ /\ Len(s) < Len(t)
     /\ SubSeq(t, 1, Len(s)) = s
  \/ \E i \in 1..Len(s) :
       /\ i <= Len(t)
       /\ SubSeq(s, 1, i - 1) = SubSeq(t, 1, i - 1)
       /\ Ord(s[i]) < Ord(t[i])

\* os.path.join(a, b) on POSIX
PathJoin(a, b) ==
  IF StartsWith(b, <<"/">>) THEN b
  ELSE IF a = EmptyStr \/ EndsWith(a, <<"/">>) THEN a \o b
  ELSE a \o <<"/">> \o b

\* os.path.basename(p): what follows the last "/"
Basename(p) ==
  LET slashes == {i \in 1..Len(p) : p[i] = "/"}
      last == IF slashes = {} THEN 0 ELSE CHOOSE i \in slashes : \A j \in slashes : j <= i
  IN  SubSeq(p, last + 1, Len(p))

\* the decimal digits of n >= 0, without padding
RECURSIVE Decimal(_)
Decimal(n) == IF n < 10 THEN <<Digits[n + 1]>> ELSE Decimal(n \div 10) \o <<Digits[(n % 10) + 1]>>


(***************************************************************************)
(* datetime.strptime / strftime.                                           *)
(* _strptime turns the format into a regular expression (alternatives are  *)
(* tried in the order written, with backtracking), requires the whole      *)
(* string to match, then builds the datetime, which checks the ranges.     *)
(***************************************************************************)
NoMatch == [ok |-> FALSE]

EmptyFields == [ok |-> TRUE, Y |-> 0, m |-> 0, d |-> 0, H |-> 0, M |-> 0, S |-> 0]

TwoDigitDirectives == {"%m", "%d", "%H", "%M", "%S"}

SetField(acc, f, n) ==
  CASE f = "%Y" -> [acc EXCEPT !.Y = n]
    [] f = "%m" -> [acc EXCEPT !.m = n]
    [] f = "%d" -> [acc EXCEPT !.d = n]
    [] f = "%H" -> [acc EXCEPT !.H = n]
    [] f = "%M" -> [acc EXCEPT !.M = n]
    [] f = "%S" -> [acc EXCEPT !.S = n]

\* the two-digit alternatives of a directive's pattern:
\* %m 1[0-2]|0[1-9]   %d 3[0-1]|[1-2]\d|0[1-9]   %H 2[0-3]|[0-1]\d   %M [0-5]\d   %S 6[0-1]|[0-5]\d
TwoDigitOk(f, n) ==
  CASE f = "%m" -> n >= 1 /\ n <= 12
    [] f = "%d" -> n >= 1 /\ n <= 31
    [] f = "%H" -> n <= 23
    [] f = "%M" -> n <= 59
    [] f = "%S" -> n <= 61

\* the one-digit alternative: [1-9] for %m and %d, \d for %H, %M, %S
OneDigitOk(f, n) == IF f \in {"%m", "%d"} THEN n >= 1 ELSE TRUE

DigitsAt(s, i, n) == i + n - 1 <= Len(s) /\ \A k \in i..(i + n - 1) : IsDigit(s[k])

RECURSIVE Number(_)
Number(ds) ==
  IF ds = << >> THEN 0 ELSE 10 * Number(SubSeq(ds, 1, Len(ds) - 1)) + DigitVal(ds[Len(ds)])

RECURSIVE Match(_, _, _, _, _)
Match(s, i, fmt, j, acc) ==
  IF j > Len(fmt) THEN (IF i = Len(s) + 1 THEN acc ELSE NoMatch)
  ELSE
    LET f == fmt[j] IN
    IF f = "%Y" THEN
      IF DigitsAt(s, i, 4)
        THEN Match(s, i + 4, fmt, j + 1, SetField(acc, f, Number(SubSeq(s, i, i + 3))))
        ELSE NoMatch
    ELSE IF f \in TwoDigitDirectives THEN
      LET two == IF DigitsAt(s, i, 2) /\ TwoDigitOk(f, Number(SubSeq(s, i, i + 1)))
                   THEN Match(s, i + 2, fmt, j + 1, SetField(acc, f, Number(SubSeq(s, i, i + 1))))
                   ELSE NoMatch
          one == IF DigitsAt(s, i, 1) /\ OneDigitOk(f, DigitVal(s[i]))
                   THEN Match(s, i + 1, fmt, j + 1, SetField(acc, f, DigitVal(s[i])))
                   ELSE NoMatch
          \* %d alone also accepts a space and a digit 1-9
          pad == IF f = "%d" /\ i + 1 <= Len(s) /\ s[i] = " " /\ IsDigit(s[i + 1])
                    /\ DigitVal(s[i + 1]) >= 1
                   THEN Match(s, i + 2, fmt, j + 1, SetField(acc, f, DigitVal(s[i + 1])))
                   ELSE NoMatch
      IN  IF two.ok THEN two ELSE IF one.ok THEN one ELSE pad
    ELSE IF f = " " THEN
      \* white space in the format is \s+ : greedy, then backtracking
      IF i <= Len(s) /\ s[i] = " "
        THEN LET more == Match(s, i + 1, fmt, j, acc)
             IN  IF more.ok THEN more ELSE Match(s, i + 1, fmt, j + 1, acc)
        ELSE NoMatch
    ELSE
      IF i <= Len(s) /\ s[i] = f THEN Match(s, i + 1, fmt, j + 1, acc) ELSE NoMatch

IsLeap(y) == (y % 4 = 0 /\ y % 100 # 0) \/ y % 400 = 0

DaysInMonth(y, m) ==
  IF m = 2 THEN (IF IsLeap(y) THEN 29 ELSE 28)
  ELSE IF m \in {4, 6, 9, 11} THEN 30 ELSE 31

\* the datetime constructor's range checks
ValidDateTime(t) ==
  /\ t.Y >= 1
  /\ t.m >= 1 /\ t.m <= 12
  /\ t.d >= 1 /\ t.d <= DaysInMonth(t.Y, t.m)
  /\ t.H <= 23 /\ t.M <= 59 /\ t.S <= 59

\* datetime.strptime(value, fmt): the parsed fields, or the exception raised
Strptime(value, fmt) ==
  IF value.type # "str" THEN [ok |-> FALSE, exc |-> "TypeError"]
  ELSE LET t == Match(value.str, 1, fmt, 1, EmptyFields)
       IN  IF t.ok /\ ValidDateTime(t) THEN t ELSE [ok |-> FALSE, exc |-> "ValueError"]

MonthAbbr ==
  << <<"J", "a", "n">>, <<"F", "e", "b">>, <<"M", "a", "r">>, <<"A", "p", "r">>,
     <<"M", "a", "y">>, <<"J", "u", "n">>, <<"J", "u", "l">>, <<"A", "u", "g">>,
     <<"S", "e", "p">>, <<"O", "c", "t">>, <<"N", "o", "v">>, <<"D", "e", "c">> >>

\* datetime.strftime("%b %Y")
StrftimeMonthYear(t) == MonthAbbr[t.m] \o <<" ">> \o Decimal(t.Y)

\* "%Y:%m:%d %H:%M:%S"
FmtColon == <<"%Y", ":", "%m", ":", "%d", " ", "%H", ":", "%M", ":", "%S">>

\* "%Y-%m-%d %H:%M:%S"
FmtDash == <<"%Y", "-", "%m", "-", "%d", " ", "%H", ":", "%M", ":", "%S">>

\* "%Y%m%d_%H%M%S"
FmtFile == <<"%Y", "%m", "%d", "_", "%H", "%M", "%S">>

\* re.compile(r'(\d{4})(\d{2})(\d{2})_(\d{2})(\d{2})(\d{2})').search(filename):
\* the leftmost run of 8 digits, "_", 6 digits; match.group(0), or None
PatternSearch(filename) ==
  LET hits == {i \in 1..Len(filename) :
                 /\ DigitsAt(filename, i, 8)
                 /\ i + 8 <= Len(filename) /\ filename[i + 8] = "_"
                 /\ DigitsAt(filename, i + 9, 6)}
  IN  IF hits = {} THEN None
      ELSE LET first == CHOOSE i \in hits : \A k \in hits : i <= k
           IN  SubSeq(filename, first, first + 14)


(***************************************************************************)
(* App.get_image_files                                                     *)
(***************************************************************************)
\* f.lower().endswith((".jpg", ".jpeg"))
IsImageName(f) ==
  \/ EndsWith(Lower(f), <<".", "j", "p", "g">>)
  \/ EndsWith(Lower(f), <<".", "j", "p", "e", "g">>)

\* list.remove(x): the list without its first element equal to x
RemoveFirst(l, x) ==
  LET i == CHOOSE k \in 1..Len(l) : l[k] = x /\ \A m \in 1..(k - 1) : l[m] # x
  IN  SubSeq(l, 1, i - 1) \o SubSeq(l, i + 1, Len(l))

\* "for f in files: if not ...: files.remove(f)": the list iterator holds an index
\* into the list being mutated; it advances by one after every element, also after
\* a removal has shifted the rest of the list down
RECURSIVE RemoveLoop(_, _)
RemoveLoop(files, i) ==
  IF i > Len(files) THEN files
  ELSE IF ~IsImageName(files[i]) THEN RemoveLoop(RemoveFirst(files, files[i]), i + 1)
  ELSE RemoveLoop(files, i + 1)

\* list.sort() on str: insertion into the sorted prefix
RECURSIVE Insert(_, _)
Insert(sorted, x) ==
  IF sorted = << >> THEN <<x>>
  ELSE IF StrLess(x, Head(sorted)) THEN <<x>> \o sorted
  ELSE <<Head(sorted)>> \o Insert(Tail(sorted), x)

RECURSIVE Sort(_)
Sort(l) == IF l = << >> THEN << >> ELSE Insert(Sort(SubSeq(l, 1, Len(l) - 1)), l[Len(l)])

\* get_image_files(): os.listdir, the removal loop, the path prefix, the sort
GetImageFiles(dirlist, inputdir) ==
  LET kept == RemoveLoop(dirlist, 1)
  IN  Sort([i \in 1..Len(kept) |-> PathJoin(inputdir, kept[i])])

(***************************************************************************)
(* App.process_image: the body of the loop over the metadata tags.         *)
(***************************************************************************)
NoExc == [type |-> "none", line |-> 0]

\* the Orientation branch: img.rotate(angle, expand=True); the image is modelled
\* by the total angle it has been rotated by since Image.open
Rotate(img, tagname, value) ==
  IF tagname # "Orientation" THEN img
  ELSE IF value = PyInt(3) THEN (img + 180) % 360
  ELSE IF value = PyInt(6) THEN (img + 270) % 360
  ELSE IF value = PyInt(8) THEN (img + 90) % 360
  ELSE img

\* try: strptime(value, colon format)  except ValueError: strptime(value, dash format)
\* except: (logged).  An exception raised inside the "except ValueError" handler is
\* not caught by the bare "except" of the same try statement.
ParseTagDate(date_string, value, line) ==
  LET colon == Strptime(value, FmtColon)
      dash == Strptime(value, FmtDash)
  IN  IF colon.ok THEN [date_string |-> StrftimeMonthYear(colon), exc |-> NoExc]
      ELSE IF colon.exc = "ValueError"
        THEN IF dash.ok THEN [date_string |-> StrftimeMonthYear(dash), exc |-> NoExc]
             ELSE [date_string |-> date_string, exc |-> [type |-> dash.exc, line |-> line]]
      ELSE [date_string |-> date_string, exc |-> NoExc]

\* if tagname == 'DateTimeOriginal': ...
DateTimeOriginalStep(date_string, tagname, value) ==
  IF tagname = "DateTimeOriginal" THEN ParseTagDate(date_string, value, 162)
  ELSE [date_string |-> date_string, exc |-> NoExc]

\* if date_string is None: if tagname == 'DateTime': ...
DateTimeStep(date_string, tagname, value) ==
  IF IsNone(date_string) /\ tagname = "DateTime" THEN ParseTagDate(date_string, value, 172)
  ELSE [date_string |-> date_string, exc |-> NoExc]

\* if date_string is None: the filename pattern
FilenameStep(date_string, filename) ==
  LET match == PatternSearch(filename)
      t == Strptime(PyStr(match), FmtFile)
  IN  IF IsNone(date_string) /\ Truthy(match)
        THEN IF t.ok THEN [date_string |-> StrftimeMonthYear(t), exc |-> NoExc]
             ELSE [date_string |-> date_string, exc |-> [type |-> t.exc, line |-> 182]]
      ELSE [date_string |-> date_string, exc |-> NoExc]

\* the three date statements of one loop iteration, in program order
DateStep(date_string, tagname, value, filename) ==
  LET a == DateTimeOriginalStep(date_string, tagname, value)
      b == DateTimeStep(a.date_string, tagname, value)
      c == FilenameStep(b.date_string, filename)
  IN  IF a.exc # NoExc THEN a ELSE IF b.exc # NoExc THEN b ELSE c

\* gps_data.get(k)
GpsGet(gps_data, k) == IF k \in DOMAIN gps_data.dict THEN gps_data.dict[k] ELSE None

\* if latitude_dms and longitude_dms and latitude_ref and longitude_ref
HasCoordinates(gps_data) ==
  /\ Truthy(GpsGet(gps_data, 2))
  /\ Truthy(GpsGet(gps_data, 4))
  /\ Truthy(GpsGet(gps_data, 1))
  /\ Truthy(GpsGet(gps_data, 3))

\* dms_to_decimal, in arc seconds (3600 times the decimal degrees), so that
\* degrees + minutes/60 + seconds/3600 stays an integer
dms_to_decimal(dms, ref) ==
  LET result == 3600 * dms[1] + 60 * dms[2] + dms[3]
  IN  IF ref \in {<<"S">>, <<"W">>} THEN 0 - result ELSE result

location_string_priority ==
  <<"tourism", "hamlet", "suburb", "town", "municipality", "city_district", "city">>

\* the priority loop without its "break": the last key present wins
RECURSIVE PriorityLoopNoBreak(_, _, _)
PriorityLoopNoBreak(location_string, address, i) ==
  IF i > Len(location_string_priority) THEN location_string
  ELSE IF location_string_priority[i] \in DOMAIN address
    THEN PriorityLoopNoBreak(address[location_string_priority[i]], address, i + 1)
  ELSE PriorityLoopNoBreak(location_string, address, i + 1)

\* for p in location_string_priority: if p in address.keys(): ...; break
RECURSIVE PriorityLoop(_, _, _)
PriorityLoop(location_string, address, i) ==
  IF i > Len(location_string_priority) THEN location_string
  ELSE IF location_string_priority[i] \in DOMAIN address
    THEN address[location_string_priority[i]]
  ELSE PriorityLoop(location_string, address, i + 1)

\* the "if location:" block: the priority loop, then the country fallback, which
\* indexes the mapping and so raises KeyError when the key is missing
SelectLocation(location_string, address) ==
  LET first == PriorityLoop(location_string, address, 1)
  IN  IF Truthy(first) THEN [location_string |-> first, exc |-> NoExc]
      ELSE IF "country" \in DOMAIN address
        THEN [location_string |-> address["country"], exc |-> NoExc]
      ELSE [location_string |-> first, exc |-> [type |-> "KeyError", line |-> 219]]


(***************************************************************************)
(* App.process_images and App.add_footer: the parts that touch the files.  *)
(***************************************************************************)
\* args.input and args.output
InputDir == <<"i", "n">>

OutputDir == <<"o", "u", "t">>

\* os.path.exists(path) in the output tree
Exists(fsys, path) == path \in DOMAIN fsys

\* the existence test without os.path.basename: the input path under the output directory
ShouldSkipFullPath(fsys, ow, filename) ==
  ~ow /\ Exists(fsys, PathJoin(OutputDir, filename))

\* "not self.args.overwrite and os.path.exists(os.path.join(output, basename(filename)))"
ShouldSkip(fsys, ow, filename) ==
  ~ow /\ Exists(fsys, PathJoin(OutputDir, Basename(filename)))

\* the caption of add_footer
FooterText(date_string, location_string) ==
  IF Truthy(location_string)
    THEN date_string \o <<" ", ">", " ">> \o location_string
    ELSE date_string

\* the save path without os.path.basename
SavePathFullPath(filename) == PathJoin(OutputDir, filename)

\* add_footer's img.save(os.path.join(output, basename(filename)))
SavePath(filename) == PathJoin(OutputDir, Basename(filename))

\* add_footer: the output tree after the save
AddFooter(fsys, filename, image, date_string, location_string) ==
  LET path == SavePath(filename)
      file == [text |-> FooterText(date_string, location_string), img |-> image]
  IN  [q \in (DOMAIN fsys) \cup {path} |-> IF q = path THEN file ELSE fsys[q]]

(***************************************************************************)
(* Inputs.                                                                 *)
(***************************************************************************)
\* "20180520_093724.jpg": a name carrying a valid YYYYMMDD_HHMMSS stamp
NameStamped ==
  <<"2", "0", "1", "8", "0", "5", "2", "0", "_", "0", "9", "3", "7", "2", "4", ".", "j", "p", "g">>

\* "20181320_093724.jpg": fifteen characters of the right shape, month 13
NameBadStamp ==
  <<"2", "0", "1", "8", "1", "3", "2", "0", "_", "0", "9", "3", "7", "2", "4", ".", "j", "p", "g">>

NamePlain == <<"a", ".", "j", "p", "e", "g">>

NameUpper == <<"B", ".", "J", "P", "G">>

NameText == <<"n", ".", "t", "x", "t">>

NamePng == <<"m", ".", "p", "n", "g">>

\* "2020:01:15 10:00:00"
StampColon ==
  <<"2", "0", "2", "0", ":", "0", "1", ":", "1", "5", " ", "1", "0", ":", "0", "0", ":", "0", "0">>

\* "2021-02-03 04:05:06"
StampDash ==
  <<"2", "0", "2", "1", "-", "0", "2", "-", "0", "3", " ", "0", "4", ":", "0", "5", ":", "0", "6">>

\* "2019:03:09 08:07:06"
StampColon2 ==
  <<"2", "0", "1", "9", ":", "0", "3", ":", "0", "9", " ", "0", "8", ":", "0", "7", ":", "0", "6">>

\* "2020/01/15 10:00:00": matches neither pattern
StampSlash ==
  <<"2", "0", "2", "0", "/", "0", "1", "/", "1", "5", " ", "1", "0", ":", "0", "0", ":", "0", "0">>

\* "0000:00:00 00:00:00", what some cameras write for an unset clock
StampZero ==
  <<"0", "0", "0", "0", ":", "0", "0", ":", "0", "0", " ", "0", "0", ":", "0", "0", ":", "0", "0">>

OrientationValues == {PyInt(1), PyInt(6)}

DateTimeOriginalValues == {PyStr(StampColon), PyStr(StampDash), PyStr(StampSlash), NotStr}

DateTimeValues == {PyStr(StampColon2), PyStr(StampZero)}

\* a complete GPSInfo block: 1 latitude ref, 2 latitude, 3 longitude ref, 4 longitude
GpsFull == [k \in 1..4 |-> CASE k = 1 -> <<"S">> [] k = 2 -> <<33, 52, 10>>
                              [] k = 3 -> <<"E">> [] k = 4 -> <<151, 12, 30>>]

\* a GPSInfo block without the latitude reference
GpsNoRef == [k \in 2..4 |-> GpsFull[k]]

\* a GPSInfo block holding only the version tag (0)
GpsEmpty == [k \in {0} |-> <<2, 3, 0, 0>>]

GpsValues == {PyDict(GpsFull), PyDict(GpsNoRef), PyDict(GpsEmpty)}

TagValues(name) ==
  CASE name = "Orientation" -> OrientationValues
    [] name = "DateTimeOriginal" -> DateTimeOriginalValues
    [] name = "DateTime" -> DateTimeValues
    [] name = "GPSInfo" -> GpsValues

\* the tags the loop looks at; an Orientation of 1 stands for any tag it ignores
TagNames == {"Orientation", "DateTimeOriginal", "DateTime", "GPSInfo"}

Tag(name, value) == [name |-> name, value |-> value]

\* the metadata mappings with at most n tags: every order of every choice of
\* distinct tag names, with every value
RECURSIVE TagSeqs(_)
TagSeqs(n) ==
  IF n = 0 THEN {<< >>}
  ELSE LET shorter == TagSeqs(n - 1)
       IN  shorter \cup
           UNION {UNION {{Append(t, Tag(name, v)) : v \in TagValues(name)} :
                           name \in {x \in TagNames : \A i \in 1..Len(t) : t[i].name # x}} :
                    t \in {u \in shorter : Len(u) = n - 1}}

\* what Image.open and img._getexif() find in a file: not an image at all; an image
\* without a metadata block (_getexif() is None); an image with one
NotImage == [image |-> FALSE, exif |-> FALSE, tags |-> << >>]

NoExif == [image |-> TRUE, exif |-> FALSE, tags |-> << >>]

WithExif(tags) == [image |-> TRUE, exif |-> TRUE, tags |-> tags]

\* the place names of the reverse geocoder, by address component
AddressKeys == {"tourism", "hamlet", "suburb", "town", "municipality", "city_district",
                "city", "country", "road"}

Place(k) ==
  CASE k = "tourism" -> <<"Z", "o", "o">>
    [] k = "hamlet" -> <<"H", "a", "m">>
    [] k = "suburb" -> <<"S", "u", "b">>
    [] k = "town" -> <<"T", "o", "w">>
    [] k = "municipality" -> <<"M", "u", "n">>
    [] k = "city_district" -> <<"D", "i", "s">>
    [] k = "city" -> <<"C", "i", "t">>
    [] k = "country" -> <<"U", "S", "A">>
    [] k = "road" -> <<"R", "d">>

\* location.raw['address'] for every choice of at most MaxAddrKeys components
Addresses == {[k \in K |-> Place(k)] : K \in {S \in SUBSET AddressKeys : Cardinality(S) <= MaxAddrKeys}}

NoReply == [kind |-> "pending", address |-> << >>]

\* geolocator.reverse(...) returns None or a Location
Replies == {[kind |-> "none", address |-> << >>]} \cup {[kind |-> "location", address |-> a] : a \in Addresses}


\* the answers of the service for the coordinates of the sample file: no result,
\* a city, only a country, and a mapping with neither
SampleReplies ==
  {[kind |-> "none", address |-> << >>]} \cup
  {[kind |-> "location", address |-> [k \in K |-> Place(k)]] :
     K \in {{"city", "country"}, {"country"}, {"road"}}}

\* the answers of a service: "any" gives every answer, "sample" the sample ones
Answers(service) == IF service = "sample" THEN SampleReplies ELSE Replies

(***************************************************************************)
(* process_image as a function: what one entry returns or raises for a     *)
(* file when geolocator.reverse answers r at the first call.               *)
(***************************************************************************)
RECURSIVE TagLoop(_, _, _, _, _)
TagLoop(tags, i, st, path, r) ==
  IF i > Len(tags) THEN [st EXCEPT !.out = "returned"]
  ELSE
    LET tagname == tags[i].name
        value == tags[i].value
        d == DateStep(st.date_string, tagname, value, path)
        turned == [st EXCEPT !.img = Rotate(st.img, tagname, value),
                             !.date_string = d.date_string]
        s == IF r.kind = "location" THEN SelectLocation(st.location_string, r.address)
             ELSE [location_string |-> st.location_string, exc |-> NoExc]
    IN  IF d.exc # NoExc THEN [turned EXCEPT !.out = "crashed", !.exc = d.exc]
        ELSE IF tagname # "GPSInfo" THEN TagLoop(tags, i + 1, turned, path, r)
        ELSE IF ~HasCoordinates(value)
          THEN [turned EXCEPT !.out = "returned", !.location_string = None]
        ELSE IF s.exc # NoExc
          THEN [turned EXCEPT !.out = "crashed", !.exc = s.exc,
                              !.location_string = s.location_string]
        ELSE TagLoop(tags, i + 1, [turned EXCEPT !.location_string = s.location_string], path, r)

ProcessImageOnce(content, path, r) ==
  LET st == [out |-> "running", img |-> 0, date_string |-> None, location_string |-> None,
             exc |-> NoExc]
  IN  IF ~content.image
        THEN [st EXCEPT !.out = "crashed", !.exc = [type |-> "UnidentifiedImageError", line |-> 131]]
      ELSE IF ~(content.exif /\ Len(content.tags) > 0) THEN [st EXCEPT !.out = "returned"]
      ELSE TagLoop(content.tags, 1, st, path, r)

(***************************************************************************)
(* State.                                                                  *)
(***************************************************************************)
VARIABLES
  dirlist,          \* os.listdir(args.input): the names of the input directory, in its order
  disk,             \* the input directory: name -> what Image.open finds in the file
  geocoder,         \* the reverse-geocoding service, by the answers it may give
  overwrite,        \* args.overwrite of the current run
  fs,               \* the output directory: path -> the file saved there
  reruns,           \* how many times process_images has been run again
  complete,         \* the run before this one returned from process_images
  pc,               \* where the program is
  files,            \* process_images: the list get_image_files returned
  pos,              \* process_images: index of filename in files
  img,              \* process_image: the image, as its rotation since Image.open
  ti,               \* process_image: index of the tag the loop is at
  date_string,      \* process_image
  location_string,  \* process_image
  query,            \* the coordinates of the geolocator.reverse call in flight
  reply,            \* what geolocator.reverse returned in this entry of process_image
  exc,              \* the exception that ended the run, or NoExc
  entries,          \* entries of process_image for the current filename
  calls,            \* geolocator.reverse calls for the current filename
  fails,            \* transient geocoding failures for the current filename
  called,           \* the filenames process_images has called process_image with, this run
  written           \* the paths add_footer has saved to, this run

vars == <<dirlist, disk, geocoder, overwrite, fs, reruns, complete, pc, files, pos, img, ti,
          date_string, location_string, query, reply, exc, entries, calls, fails,
          called, written>>

inputs == <<dirlist, disk, geocoder>>

locals == <<img, ti, date_string, location_string, query, reply>>

counters == <<entries, calls, fails>>

filename == files[pos]

\* what Image.open(filename) and img._getexif() find
Content == disk[Basename(filename)]

exif_data == Content.tags

NoQuery == << >>

\* an entry of process_image that keeps the image object of the entry before
FreshLocalsKeepImage ==
  /\ img' = img
  /\ ti' = 1
  /\ date_string' = None
  /\ location_string' = None
  /\ query' = NoQuery
  /\ reply' = NoReply

\* the locals of process_image on entry
FreshLocals ==
  /\ img' = 0
  /\ ti' = 1
  /\ date_string' = None
  /\ location_string' = None
  /\ query' = NoQuery
  /\ reply' = NoReply

\* the loop over the tags goes on with the next tag, or ends: "return img, ..."
AfterTag == IF ti + 1 > Len(exif_data) THEN "returned" ELSE "tags"

(***************************************************************************)
(* Actions.                                                                *)
(***************************************************************************)
\* process_images: files = self.get_image_files()
ListFiles ==
  /\ pc = "start"
  /\ files' = GetImageFiles(dirlist, InputDir)
  /\ pos' = 1
  /\ pc' = "loop"
  /\ UNCHANGED <<inputs, overwrite, fs, reruns, complete, locals, exc, counters, called, written>>

\* process_images: the output exists and overwrite is off: pass
SkipExisting ==
  /\ pc = "loop"
  /\ pos <= Len(files)
  /\ ShouldSkip(fs, overwrite, filename)
  /\ pos' = pos + 1
  /\ UNCHANGED <<inputs, overwrite, fs, reruns, complete, pc, files, locals, exc, counters,
                 called, written>>

\* process_images: self.process_image(filename)
CallProcessImage ==
  /\ pc = "loop"
  /\ pos <= Len(files)
  /\ ~ShouldSkip(fs, overwrite, filename)
  /\ pc' = "enter"
  /\ called' = Append(called, filename)
  /\ entries' = 0 /\ calls' = 0 /\ fails' = 0
  /\ UNCHANGED <<inputs, overwrite, fs, reruns, complete, files, pos, locals, exc, written>>

\* process_image up to the loop: Image.open, _getexif, the locals, "if not exif_data"
Enter ==
  /\ pc = "enter"
  /\ entries' = entries + 1
  /\ FreshLocals
  /\ IF ~Content.image
       THEN pc' = "crashed" /\ exc' = [type |-> "UnidentifiedImageError", line |-> 131]
       ELSE /\ exc' = exc
            /\ pc' = IF Content.exif /\ Len(exif_data) > 0 THEN "tags" ELSE "returned"
  /\ UNCHANGED <<inputs, overwrite, fs, reruns, complete, files, pos, calls, fails, called,
                 written>>

\* one iteration of "for tag, value in exif_data.items()", up to the geocoder call
TagStep ==
  /\ pc = "tags"
  /\ LET tagname == exif_data[ti].name
         value == exif_data[ti].value
         d == DateStep(date_string, tagname, value, filename)
     IN  /\ img' = Rotate(img, tagname, value)
         /\ date_string' = d.date_string
         /\ IF d.exc # NoExc
              THEN /\ pc' = "crashed" /\ exc' = d.exc
                   /\ UNCHANGED <<ti, location_string, query, calls>>
            ELSE IF tagname # "GPSInfo"
              THEN /\ pc' = AfterTag /\ ti' = ti + 1
                   /\ UNCHANGED <<exc, location_string, query, calls>>
            ELSE IF HasCoordinates(value)
              THEN /\ query' = <<dms_to_decimal(GpsGet(value, 2), GpsGet(value, 1)),
                                  dms_to_decimal(GpsGet(value, 4), GpsGet(value, 3))>>
                   /\ calls' = calls + 1
                   /\ pc' = "geocode"
                   /\ UNCHANGED <<exc, ti, location_string>>
            ELSE \* return img, date_string, None
                   /\ pc' = "returned" /\ location_string' = None
                   /\ UNCHANGED <<exc, ti, query, calls>>
  /\ UNCHANGED <<inputs, overwrite, fs, reruns, complete, files, pos, reply, entries, fails,
                 called, written>>

\* geolocator.reverse raises GeocoderTimedOut, GeocoderServiceError or
\* GeocoderUnavailable: return self.process_image(filename)
GeocodeFail ==
  /\ pc = "geocode"
  /\ fails < MaxFails
  /\ fails' = fails + 1
  /\ pc' = "enter"
  /\ UNCHANGED <<inputs, overwrite, fs, reruns, complete, files, pos, locals, exc, entries,
                 calls, called, written>>

\* geolocator.reverse returns: the "if location:" block, then the next tag
GeocodeReply ==
  /\ pc = "geocode"
  /\ \E r \in Answers(geocoder) :
       /\ reply' = r
       /\ LET s == IF r.kind = "location" THEN SelectLocation(location_string, r.address)
                   ELSE [location_string |-> location_string, exc |-> NoExc]
          IN  /\ location_string' = s.location_string
              /\ exc' = s.exc
              /\ IF s.exc # NoExc THEN pc' = "crashed" /\ ti' = ti
                                   ELSE pc' = AfterTag /\ ti' = ti + 1
  /\ UNCHANGED <<inputs, overwrite, fs, reruns, complete, files, pos, img, date_string, query,
                 counters, called, written>>

\* process_images: "if date_string: self.add_footer(...)", then the next filename;
\* what process_image returned is dead from here on
Footer ==
  /\ pc = "returned"
  /\ IF Truthy(date_string)
       THEN /\ fs' = AddFooter(fs, filename, img, date_string, location_string)
            /\ written' = Append(written, SavePath(filename))
       ELSE UNCHANGED <<fs, written>>
  /\ pos' = pos + 1
  /\ pc' = "loop"
  /\ FreshLocals
  /\ entries' = 0 /\ calls' = 0 /\ fails' = 0
  /\ UNCHANGED <<inputs, overwrite, reruns, complete, files, exc, called>>

\* process_images: the loop is over
Finish ==
  /\ pc = "loop"
  /\ pos > Len(files)
  /\ pc' = "done"
  /\ UNCHANGED <<inputs, overwrite, fs, reruns, complete, files, pos, locals, exc, counters,
                 called, written>>

\* the program is started again on the same input and output directories
Rerun ==
  /\ pc \in {"done", "crashed"}
  /\ reruns < MaxReruns
  /\ reruns' = reruns + 1
  /\ complete' = (pc = "done")
  /\ overwrite' \in BOOLEAN
  /\ pc' = "start"
  /\ files' = << >> /\ pos' = 1
  /\ FreshLocals
  /\ exc' = NoExc
  /\ entries' = 0 /\ calls' = 0 /\ fails' = 0
  /\ called' = << >> /\ written' = << >>
  /\ UNCHANGED <<inputs, fs>>

(***************************************************************************)
(* The batch specification: a directory of sample files, any listing       *)
(* order, any files already in the output directory.                       *)
(***************************************************************************)
\* the sample files of the input directory
SampleDisk ==
  [n \in {NameStamped, NamePlain, NameUpper, NameText, NamePng} |->
     CASE n = NameStamped -> WithExif(<<Tag("Make", PyStr(<<"X">>))>>)
       [] n = NamePlain -> WithExif(<<Tag("Orientation", PyInt(6)),
                                      Tag("DateTimeOriginal", PyStr(StampColon)),
                                      Tag("GPSInfo", PyDict(GpsFull))>>)
       [] n = NameUpper -> NoExif
       [] n = NameText -> NotImage
       [] n = NamePng -> NotImage]

\* the listings of at most n distinct names
RECURSIVE Listings(_, _)
Listings(names, n) ==
  IF n = 0 THEN {<< >>}
  ELSE LET shorter == Listings(names, n - 1)
       IN  shorter \cup
           UNION {{Append(l, x) : x \in {y \in names : \A i \in 1..Len(l) : l[i] # y}} :
                    l \in {u \in shorter : Len(u) = n - 1}}

OldFile == [text |-> <<"o", "l", "d">>, img |-> 0]

\* an output directory already holding the files of the names in S
OutputWith(S) == [q \in {PathJoin(OutputDir, n) : n \in S} |-> OldFile]

Init ==
  /\ dirlist \in Listings(DOMAIN SampleDisk, MaxFiles)
  /\ disk = [n \in {dirlist[i] : i \in 1..Len(dirlist)} |-> SampleDisk[n]]
  /\ geocoder = "sample"
  /\ overwrite \in BOOLEAN
  /\ \E S \in SUBSET {NamePlain, NameUpper} : fs = OutputWith(S)
  /\ reruns = 0
  /\ complete = FALSE
  /\ pc = "start"
  /\ files = << >> /\ pos = 1
  /\ img = 0 /\ ti = 1 /\ date_string = None /\ location_string = None
  /\ query = NoQuery /\ reply = NoReply
  /\ exc = NoExc
  /\ entries = 0 /\ calls = 0 /\ fails = 0
  /\ called = << >> /\ written = << >>

Next ==
  \/ ListFiles
  \/ SkipExisting
  \/ CallProcessImage
  \/ Enter
  \/ TagStep
  \/ GeocodeFail
  \/ GeocodeReply
  \/ Footer
  \/ Finish
  \/ Rerun

Spec == Init /\ [][Next]_vars

(***************************************************************************)
(* The single-image specification: process_image called on one file, for   *)
(* every name and every metadata block of at most MaxTags tags.            *)
(***************************************************************************)
ImageNames == {NameStamped, NameBadStamp, NamePlain}

ImageContents == {NoExif} \cup {WithExif(t) : t \in TagSeqs(MaxTags)}

InitImage ==
  /\ \E n \in ImageNames, c \in ImageContents :
       /\ dirlist = <<n>>
       /\ disk = [m \in {n} |-> c]
       /\ files = <<PathJoin(InputDir, n)>>
       /\ called = <<PathJoin(InputDir, n)>>
  /\ geocoder = "any"
  /\ overwrite = FALSE
  /\ fs = OutputWith({})
  /\ reruns = 0
  /\ complete = FALSE
  /\ pc = "enter"
  /\ pos = 1
  /\ img = 0 /\ ti = 1 /\ date_string = None /\ location_string = None
  /\ query = NoQuery /\ reply = NoReply
  /\ exc = NoExc
  /\ entries = 0 /\ calls = 0 /\ fails = 0
  /\ written = << >>

NextImage ==
  \/ Enter
  \/ TagStep
  \/ GeocodeFail
  \/ GeocodeReply

SpecImage == InitImage /\ [][NextImage]_vars


(***************************************************************************)
(* Properties.                                                             *)
(***************************************************************************)
\* the output path of a filename
OutputOf(path) == PathJoin(OutputDir, Basename(path))

Range(l) == {l[i] : i \in 1..Len(l)}

\* process_images is at a filename whose output exists, overwrite off
AtExistingOutput ==
  /\ pc = "loop"
  /\ pos <= Len(files)
  /\ ~overwrite
  /\ OutputOf(filename) \in DOMAIN fs

\* C1: with overwrite not requested, a file whose base name already exists in the
\* output directory when it is reached is passed over: process_image is not called
\* for it, add_footer is not called for it, and no save ever goes to a path that
\* exists already; only a run with overwrite requested replaces an output.
C1_ExistingOutputNeverWritten ==
  [][/\ AtExistingOutput =>
          /\ called' = called
          /\ written' = written
          /\ fs' = fs
          /\ pc' = "loop" /\ pos' = pos + 1
     /\ Len(written') > Len(written) =>
          (overwrite \/ written'[Len(written')] \notin DOMAIN fs)]_vars

\* a run without overwrite that passed over one file and wrote another
C1_Witness ==
  /\ pc = "done"
  /\ ~overwrite
  /\ reruns = 0
  /\ Len(called) < Len(files)
  /\ \E i \in 1..Len(files) : OutputOf(files[i]) \in DOMAIN fs /\ files[i] \notin Range(called)
  /\ Len(written) > 0

\* the names of the listing that end in .jpg or .jpeg, lower-cased
ImagePaths == {PathJoin(InputDir, dirlist[i]) : i \in {k \in 1..Len(dirlist) : IsImageName(dirlist[k])}}

\* C2: get_image_files returns exactly the entries of the listing whose lower-cased
\* name ends in .jpg or .jpeg, each prefixed with the input path, in ascending
\* order, and process_images visits them in that order.
C2_ExactlyTheImagesInOrder ==
  pc # "start" =>
    /\ Range(files) = ImagePaths
    /\ Len(files) = Cardinality(ImagePaths)
    /\ \A i \in 1..(Len(files) - 1) : StrLess(files[i], files[i + 1])
    /\ \A i \in 1..(Len(called) - 1) : StrLess(called[i], called[i + 1])

\* the value a date tag yields: its month and year when it is present and matches one
\* of the two patterns, None otherwise
TagYield(content, name) ==
  LET at == {i \in 1..Len(content.tags) : content.tags[i].name = name}
      parsed == ParseTagDate(None, content.tags[CHOOSE i \in at : TRUE].value, 0)
  IN  IF ~content.exif \/ at = {} THEN None
      ELSE IF parsed.exc # NoExc THEN None
      ELSE parsed.date_string

\* the value the filename pattern yields
FileYield(path) ==
  LET f == FilenameStep(None, path)
  IN  IF f.exc # NoExc THEN None ELSE f.date_string

\* the cascade: DateTimeOriginal, then DateTime, then the filename pattern
Cascade(content, path) ==
  IF Truthy(TagYield(content, "DateTimeOriginal")) THEN TagYield(content, "DateTimeOriginal")
  ELSE IF Truthy(TagYield(content, "DateTime")) THEN TagYield(content, "DateTime")
  ELSE FileYield(path)

HasTag(content, name) == content.exif /\ \E i \in 1..Len(content.tags) : content.tags[i].name = name

\* C3: the date process_image resolves comes from the first source that yields a
\* value in the order DateTimeOriginal, DateTime, filename pattern: DateTime only when
\* DateTimeOriginal yields none, the filename only when neither tag yields one.
\* Stated for the images whose loop reaches every tag (no GPSInfo block).
C3_CascadeOrder ==
  (pc = "returned" /\ Truthy(date_string) /\ ~HasTag(Content, "GPSInfo")) =>
    date_string = Cascade(Content, filename)

\* C4: an image with neither a DateTimeOriginal nor a DateTime tag (also one with no
\* metadata block, or an empty one) whose path carries a valid YYYYMMDD_HHMMSS stamp
\* gets the month and year of the stamp as its date.
C4_FilenameDateWithoutTags ==
  (/\ pc = "returned"
   /\ ~HasTag(Content, "DateTimeOriginal")
   /\ ~HasTag(Content, "DateTime")
   /\ Truthy(FileYield(filename))) =>
    date_string = FileYield(filename)

PriorityKeys == Range(location_string_priority)

\* the value of the first key of the priority list present in the mapping, else
\* the value of country
FirstByPriority(address) ==
  LET present == {i \in 1..Len(location_string_priority) :
                    location_string_priority[i] \in DOMAIN address}
  IN  IF present # {}
        THEN address[location_string_priority[CHOOSE i \in present : \A j \in present : i <= j]]
        ELSE address["country"]

\* C5: when reverse geocoding returns an address-component mapping, the location is
\* the value of the first key of tourism, hamlet, suburb, town, municipality,
\* city_district, city present in it, whatever other keys are present; when none of
\* the seven is present and country is, it is the value of country.
C5_LocationByPriority ==
  (/\ reply.kind = "location"
   /\ (DOMAIN reply.address) \cap (PriorityKeys \cup {"country"}) # {}) =>
    location_string = FirstByPriority(reply.address)

\* process_image has returned a location chosen among two priority keys and a
\* location taken from country with another key present
C5_Witness ==
  /\ pc = "returned"
  /\ reply.kind = "location"
  /\ DOMAIN reply.address = {"city", "suburb"}
  /\ location_string = Place("suburb")

\* the GPSInfo block of the image lacks one of the four sub-fields
IncompleteGps(content) ==
  /\ content.exif
  /\ \E i \in 1..Len(content.tags) :
       content.tags[i].name = "GPSInfo" /\ ~HasCoordinates(content.tags[i].value)

\* the same image with the GPSInfo block removed
WithoutGps(content) ==
  [content EXCEPT !.tags = SelectSeq(content.tags, LAMBDA t : t.name # "GPSInfo")]

\* C6: a GPSInfo block that lacks a sub-field gives no location and no geocoder
\* call, and the date and the rotation returned are those of the same image with the
\* GPSInfo block removed, wherever the GPSInfo tag stands among the other tags.
\* Stated for the images that carry another tag besides GPSInfo and that process_image
\* returns for once the block is removed.
C6_IncompleteGpsLikeNoGps ==
  (/\ pc = "returned"
   /\ IncompleteGps(Content)
   /\ Len(WithoutGps(Content).tags) > 0
   /\ ProcessImageOnce(WithoutGps(Content), filename, NoReply).out = "returned") =>
    /\ IsNone(location_string)
    /\ calls = 0
    /\ date_string = ProcessImageOnce(WithoutGps(Content), filename, NoReply).date_string
    /\ img = ProcessImageOnce(WithoutGps(Content), filename, NoReply).img

\* C7: a second run over the unchanged input directory, overwrite off, after a run
\* that completed, saves nothing: what the first run wrote is passed over, and what
\* it wrote nothing for is written nothing again.
C7_SecondRunWritesNothing ==
  (reruns >= 1 /\ complete /\ ~overwrite) => written = << >>

\* a second run has finished: it passed over a file the first run wrote and
\* called process_image again for one the first run wrote nothing for
C7_Witness ==
  /\ pc = "done"
  /\ reruns = 1 /\ complete /\ ~overwrite
  /\ Len(called) > 0
  /\ \E i \in 1..Len(files) : OutputOf(files[i]) \in DOMAIN fs /\ files[i] \notin Range(called)
  /\ \E i \in 1..Len(files) :
       /\ OutputOf(files[i]) \in DOMAIN fs
       /\ fs[OutputOf(files[i])] # OldFile

\* C8: a DateTimeOriginal or DateTime value that matches neither pattern raises no
\* exception out of process_image.
C8_UnparsableDateDoesNotRaise ==
  ~(pc = "crashed" /\ exc.type = "ValueError" /\ exc.line \in {162, 172})

\* C9: a mapping with none of the seven keys and no country raises nothing and gives
\* an absent location together with the date resolved.
C9_NoKnownKeyGivesNoLocation ==
  (/\ reply.kind = "location"
   /\ (DOMAIN reply.address) \cap (PriorityKeys \cup {"country"}) = {}) =>
    /\ exc.type # "KeyError"
    /\ IsNone(location_string)

\* what the current entry of process_image has come to
Outcome ==
  [out |-> pc, img |-> img, date_string |-> date_string,
   location_string |-> location_string, exc |-> exc]

\* C10: each transient geocoding failure restarts the processing of that image once:
\* after k failures and an answer, process_image has been entered k+1 times and the
\* geocoder called k+1 times, what is returned (or raised) is what a run without
\* failure returns for that answer, the failure itself never reaches the batch
\* driver, and no other image is started before the retried one is through.
C10_RetryRestartsOnce ==
  /\ (pc \in {"returned", "crashed"} /\ reply.kind # "pending") =>
       /\ entries = fails + 1
       /\ calls = fails + 1
       /\ Outcome = ProcessImageOnce(Content, filename, reply)
  /\ fails > 0 =>
       /\ pc \in {"enter", "tags", "geocode", "returned", "crashed"}
       /\ called[Len(called)] = filename
       /\ entries \in {fails, fails + 1}
       /\ (pc = "crashed" => exc = ProcessImageOnce(Content, filename, reply).exc)

\* the geocoder failed twice for an image, then answered, and the image came back
\* rotated once, with its date and the location
C10_Witness ==
  /\ pc = "returned"
  /\ fails = 2
  /\ entries = 3 /\ calls = 3
  /\ reply.kind = "location"
  /\ img = 270
  /\ Truthy(date_string) /\ Truthy(location_string)

=============================================================================
